---- MODULE Spec2Model ----
(***************************************************************************)
(* A model of tmux-supertree: the tree synchronizer (TmuxTree._refresh),   *)
(* the fuzzy filter (_apply_fuzzy_markup), jump addressing (on_key)        *)
(* and the navigation and mutation coordinator (MainApp handlers).         *)
(*                                                                         *)
(* Strings are sequences of one-character strings, so that matching is     *)
(* computed character by character as the code does.  The value None       *)
(* stands for Python's None.                                               *)
(***************************************************************************)
EXTENDS Integers, Sequences, FiniteSets, TLC

None == "None"

(***************************************************************************)
(* Strings                                                                 *)
(***************************************************************************)

\* str.lower() on one character of the modelled alphabet.
LowerChar(c) ==
    IF c = "A" THEN "a" ELSE IF c = "B" THEN "b" ELSE IF c = "H" THEN "h" ELSE c

\* str.lower()
Lower(s) == [i \in 1..Len(s) |-> LowerChar(s[i])]

\* str.replace(" ", "")
RECURSIVE StripSpaces(_)
StripSpaces(s) ==
    IF s = <<>> THEN <<>>
    ELSE IF Head(s) = " " THEN StripSpaces(Tail(s))
    ELSE <<Head(s)>> \o StripSpaces(Tail(s))

\* "/" in s
HasSlash(s) == \E i \in 1..Len(s) : s[i] = "/"

\* index of the first "/" of s (s contains one)
FirstSlash(s) == CHOOSE i \in 1..Len(s) : s[i] = "/" /\ \A j \in 1..(i-1) : s[j] # "/"

\* s.split("/", 1)[0] and s.split("/", 1)[1]
BeforeSlash(s) == SubSeq(s, 1, FirstSlash(s) - 1)
AfterSlash(s) == SubSeq(s, FirstSlash(s) + 1, Len(s))

\* s.startswith("__")
StartsWithUnderscores(s) == Len(s) >= 2 /\ s[1] = "_" /\ s[2] = "_"

(***************************************************************************)
(* Fuzzy filter                                                            *)
(***************************************************************************)

\* The loop of _is_fuzzy_match: k is the position in name, i the number of
\* characters of search_term already matched.
RECURSIVE FuzzyLoop(_, _, _, _)
FuzzyLoop(st, nm, k, i) ==
    IF k > Len(nm) THEN FALSE
    ELSE IF nm[k] = st[i + 1]
         THEN (IF i + 1 = Len(st) THEN TRUE ELSE FuzzyLoop(st, nm, k + 1, i + 1))
         ELSE FuzzyLoop(st, nm, k + 1, i)

\* A variant that reports a match as soon as one character matched.
IsFuzzyMatchFirstCharOnly(search_term, name) ==
    IF search_term = <<>> THEN TRUE
    ELSE \E k \in 1..Len(name) : LowerChar(name[k]) = LowerChar(search_term[1])

_is_fuzzy_match(search_term, name) ==
    IF search_term = <<>> THEN TRUE
    ELSE FuzzyLoop(Lower(search_term), Lower(name), 1, 0)

\* The marking loop of _apply_fuzzy_markup: the sequence of flags "this
\* character of name is wrapped in [underline bold]".
RECURSIVE MarkLoop(_, _, _, _)
MarkLoop(st, nm, k, i) ==
    IF k > Len(nm) THEN <<>>
    ELSE LET is_match == Len(st) > i /\ LowerChar(nm[k]) = st[i + 1]
         IN  <<is_match>> \o MarkLoop(st, nm, k + 1, IF is_match THEN i + 1 ELSE i)

NumMatches(marks) == Cardinality({k \in 1..Len(marks) : marks[k]})

NoMarkup == [matched |-> FALSE, text |-> <<>>]

\* A variant that returns the marked name however much of the term the walk
\* consumed.
OwnNameMarkupPartial(search_term, name) ==
    LET st == StripSpaces(Lower(search_term))
        marks == MarkLoop(st, name, 1, 0)
    IN  [matched |-> TRUE,
         text |-> [k \in 1..Len(name) |-> [ch |-> name[k], marked |-> marks[k]]]]

\* The part of _apply_fuzzy_markup after the parent check.  The result models
\* Optional[str]: matched = FALSE is None, otherwise text is the marked name,
\* the name's characters with their mark flags.
OwnNameMarkup(search_term, name) ==
    LET st == StripSpaces(Lower(search_term))
        marks == MarkLoop(st, name, 1, 0)
    IN  IF NumMatches(marks) = Len(st)
        THEN [matched |-> TRUE,
              text |-> [k \in 1..Len(name) |-> [ch |-> name[k], marked |-> marks[k]]]]
        ELSE NoMarkup

\* "return name": the name with no markup.
Unmarked(name) ==
    [matched |-> TRUE, text |-> [k \in 1..Len(name) |-> [ch |-> name[k], marked |-> FALSE]]]

\* A variant without the parent check.
ApplyFuzzyMarkupNoParent(search_term, parent_name, name) ==
    IF search_term = <<>> THEN Unmarked(name)
    ELSE OwnNameMarkup(IF HasSlash(search_term) THEN AfterSlash(search_term)
                       ELSE search_term, name)

\* parent_search_term is None without a "/"; None and "" are both falsy in the
\* test "parent_name and parent_search_term", so both are the empty sequence here.
_apply_fuzzy_markup(search_term, parent_name, name) ==
    IF search_term = <<>>
    THEN Unmarked(name)
    ELSE LET parent_search_term ==
                 IF HasSlash(search_term) THEN BeforeSlash(search_term) ELSE <<>>
             own_term ==
                 IF HasSlash(search_term) THEN AfterSlash(search_term) ELSE search_term
         IN  IF /\ parent_name # <<>>
                /\ parent_search_term # <<>>
                /\ ~_is_fuzzy_match(parent_search_term, parent_name)
             THEN NoMarkup
             ELSE OwnNameMarkup(own_term, name)

\* Python truthiness of the value _apply_fuzzy_markup returns (a str or None).
Truthy(marked_name) == marked_name.matched /\ marked_name.text # <<>>

(***************************************************************************)
(* The external multiplexer and the snapshot provider (tmux.py)            *)
(*                                                                         *)
(* The server state `ext` is a sequence of sessions                        *)
(*   [id, name, windows: <<[id, name, index, panes: <<[id, name, index]>>]>>]*)
(* in the order list-sessions / list-windows / list-panes report them.     *)
(***************************************************************************)

\* dataclass TmuxPane, with the fields every node reference carries.
TmuxPane(id, name, index, window_id, session_id, gen) ==
    [kind |-> "pane", id |-> id, name |-> name, index |-> index,
     window_id |-> window_id, session_id |-> session_id,
     jump_code |-> -1, is_enabled |-> TRUE, gen |-> gen]

\* dataclass TmuxWindow
TmuxWindow(id, name, index, session_id, gen, panes) ==
    [kind |-> "window", id |-> id, name |-> name, index |-> index,
     window_id |-> "", session_id |-> session_id,
     jump_code |-> -1, is_enabled |-> TRUE, gen |-> gen, panes |-> panes]

\* dataclass TmuxSession
TmuxSession(id, name, gen, windows) ==
    [kind |-> "session", id |-> id, name |-> name, index |-> "",
     window_id |-> "", session_id |-> "",
     jump_code |-> -1, is_enabled |-> TRUE, gen |-> gen, windows |-> windows]

\* A reference to a snapshot object: the object without its children.  Two
\* references denote the same Python object iff they agree on id and gen (the
\* snapshot generation that created the object).
Ref(o) ==
    [kind |-> o.kind, id |-> o.id, name |-> o.name, index |-> o.index,
     window_id |-> o.window_id, session_id |-> o.session_id,
     jump_code |-> o.jump_code, is_enabled |-> o.is_enabled, gen |-> o.gen]

\* event.node.data of the placeholder row: None.
NoData ==
    [kind |-> "None", id |-> "", name |-> <<>>, index |-> "",
     window_id |-> "", session_id |-> "",
     jump_code |-> -1, is_enabled |-> TRUE, gen |-> 0]

\* current_tree_node is None / next_target is None.
NoNode ==
    [kind |-> "NoNode", id |-> "", name |-> <<>>, index |-> "",
     window_id |-> "", session_id |-> "",
     jump_code |-> -1, is_enabled |-> TRUE, gen |-> 0]

SameObject(a, b) == a.kind = b.kind /\ a.id = b.id /\ a.gen = b.gen

\* The enumeration commands that fail are given by their targets: the id of
\* a window for its list-panes, the id of a session for its list-windows and
\* "list-sessions" for list-sessions.  A command that fails (a non-zero
\* return code, or an exception) yields the empty list.
get_panes(w, window_id, session_id, gen, failed) ==
    IF window_id \in failed THEN <<>>
    ELSE [k \in 1..Len(w.panes) |->
            TmuxPane(w.panes[k].id, w.panes[k].name, w.panes[k].index,
                     window_id, session_id, gen)]

\* A variant in which a failed list-panes is not absorbed by get_panes and
\* ends the enumeration of the session's windows.
GetWindowsAborting(sess, session_id, gen, failed) ==
    IF session_id \in failed THEN <<>>
    ELSE IF \E j \in 1..Len(sess.windows) : sess.windows[j].id \in failed THEN <<>>
    ELSE [j \in 1..Len(sess.windows) |->
            TmuxWindow(sess.windows[j].id, sess.windows[j].name,
                       sess.windows[j].index, session_id, gen,
                       get_panes(sess.windows[j], sess.windows[j].id, session_id,
                                 gen, failed))]

get_windows(sess, session_id, gen, failed) ==
    IF session_id \in failed THEN <<>>
    ELSE [j \in 1..Len(sess.windows) |->
            TmuxWindow(sess.windows[j].id, sess.windows[j].name,
                       sess.windows[j].index, session_id, gen,
                       get_panes(sess.windows[j], sess.windows[j].id, session_id,
                                 gen, failed))]

get_sessions(server, gen, failed) ==
    IF "list-sessions" \in failed THEN <<>>
    ELSE [i \in 1..Len(server) |->
            TmuxSession(server[i].id, server[i].name, gen,
                        get_windows(server[i], server[i].id, gen, failed))]

get_session_id(obj) ==
    IF obj.kind = "session" THEN obj.id
    ELSE IF obj.kind \in {"window", "pane"} THEN obj.session_id
    ELSE None

(***************************************************************************)
(* Tree synchronizer: TmuxTree._refresh                                    *)
(***************************************************************************)

\* f"Window {window.index}" / f"Pane {pane.index}"
WindowDefaultName(index) == <<"W", "i", "n", "d", "o", "w", " ", index>>
PaneDefaultName(index) == <<"P", "a", "n", "e", " ", index>>

RECURSIVE Concat(_)
Concat(seqs) == IF seqs = <<>> THEN <<>> ELSE Head(seqs) \o Concat(Tail(seqs))

\* One call of add(parent, name, data): the position of data in the snapshot
\* (path), the parent's data.name ("" under the root) and the display name.
AddCall(path, parent_name, name) ==
    [path |-> path, parent_name |-> parent_name, name |-> name]

\* "for pane in window.panes: add(window_node, pane_name, pane)"
PaneCalls(i, j, window, panes_shown) ==
    IF panes_shown
    THEN [k \in 1..Len(window.panes) |->
            AddCall(<<i, j, k>>, window.name,
                    IF window.panes[k].name # <<>> THEN window.panes[k].name
                    ELSE PaneDefaultName(window.panes[k].index))]
    ELSE <<>>

WindowCall(i, j, session) ==
    AddCall(<<i, j>>, session.name,
            IF session.windows[j].name # <<>> THEN session.windows[j].name
            ELSE WindowDefaultName(session.windows[j].index))

\* The loop over tmux_sessions with every window added before the panes of
\* the session's windows.
AddCallsPanesLast(sessions, hidden_shown, focus, panes_shown) ==
    Concat([i \in 1..Len(sessions) |->
        IF ~hidden_shown /\ StartsWithUnderscores(sessions[i].name) THEN <<>>
        ELSE IF focus # None /\ sessions[i].id # focus THEN <<>>
        ELSE <<AddCall(<<i>>, <<>>, sessions[i].name)>>
             \o [j \in 1..Len(sessions[i].windows) |-> WindowCall(i, j, sessions[i])]
             \o Concat([j \in 1..Len(sessions[i].windows) |->
                    PaneCalls(i, j, sessions[i].windows[j], panes_shown)])])

\* The calls of add() the loop over tmux_sessions makes, in the order it makes
\* them; the n-th call sets data.jump_code = n.
AddCalls(sessions, hidden_shown, focus, panes_shown) ==
    Concat([i \in 1..Len(sessions) |->
        IF ~hidden_shown /\ StartsWithUnderscores(sessions[i].name) THEN <<>>
        ELSE IF focus # None /\ sessions[i].id # focus THEN <<>>
        ELSE <<AddCall(<<i>>, <<>>, sessions[i].name)>>
             \o Concat([j \in 1..Len(sessions[i].windows) |->
                    <<WindowCall(i, j, sessions[i])>>
                    \o PaneCalls(i, j, sessions[i].windows[j], panes_shown)])])

\* The number of the add() call made for the object at path, 0 if none was.
CallIndex(calls, path) ==
    IF \E n \in 1..Len(calls) : calls[n].path = path
    THEN CHOOSE n \in 1..Len(calls) : calls[n].path = path
    ELSE 0

\* A variant that filters windows and panes only: a session node keeps its
\* plain name.
MarkedNameSessionsUnfiltered(calls, n, term) ==
    IF calls[n].parent_name = <<>> THEN Unmarked(calls[n].name)
    ELSE _apply_fuzzy_markup(term, calls[n].parent_name, calls[n].name)

\* marked_name of the n-th call
MarkedName(calls, n, term) ==
    _apply_fuzzy_markup(term, calls[n].parent_name, calls[n].name)

\* data.jump_code and data.is_enabled as add() leaves them (an object add()
\* was not called for keeps the dataclass defaults).
Annotate(obj, calls, path, term) ==
    LET n == CallIndex(calls, path)
    IN  IF n = 0 THEN obj
        ELSE [obj EXCEPT !.jump_code = n,
                         !.is_enabled = Truthy(MarkedName(calls, n, term))]

AnnotateAll(sessions, calls, term) ==
    [i \in 1..Len(sessions) |->
        [Annotate(sessions[i], calls, <<i>>, term) EXCEPT !.windows =
            [j \in 1..Len(sessions[i].windows) |->
                [Annotate(sessions[i].windows[j], calls, <<i, j>>, term) EXCEPT !.panes =
                    [k \in 1..Len(sessions[i].windows[j].panes) |->
                        Annotate(sessions[i].windows[j].panes[k], calls, <<i, j, k>>, term)]]]]]

ObjAt(sessions, path) ==
    IF Len(path) = 1 THEN sessions[path[1]]
    ELSE IF Len(path) = 2 THEN sessions[path[1]].windows[path[2]]
    ELSE sessions[path[1]].windows[path[2]].panes[path[3]]

\* The order in which the Tree widget displays its nodes: every node is
\* expanded, so a node comes before its children and children keep the order
\* in which they were added to their parent.
PathLess(p, q) ==
    \/ \E n \in 1..Len(p) :
          /\ n <= Len(q)
          /\ \A m \in 1..(n - 1) : p[m] = q[m]
          /\ p[n] < q[n]
    \/ /\ Len(p) < Len(q)
       /\ \A m \in 1..Len(p) : p[m] = q[m]

\* The rows of the widget: the data of each displayed node, top to bottom.
TreeLines(sessions, calls) ==
    [r \in 1..Len(calls) |->
        LET n == CHOOSE c \in 1..Len(calls) :
                    Cardinality({d \in 1..Len(calls) :
                                    PathLess(calls[d].path, calls[c].path)}) = r - 1
        IN  Ref(ObjAt(sessions, calls[n].path))]

\* The call of add() whose node the widget displays on row r.
RowCall(calls, r) ==
    CHOOSE c \in 1..Len(calls) :
        Cardinality({d \in 1..Len(calls) : PathLess(calls[d].path, calls[c].path)}) = r - 1

\* The label add() gives the node of its n-th call: the marked name, or the
\* name dimmed ("[#777777]name[/]") when marked_name is falsy, after the jump
\* code ("[#666666]n:[/] ") when numbers are shown (number 0: no prefix).
Label(calls, n, term, numbers_shown) ==
    [number |-> IF numbers_shown THEN n ELSE 0,
     dimmed |-> ~Truthy(MarkedName(calls, n, term)),
     text |-> IF Truthy(MarkedName(calls, n, term))
              THEN MarkedName(calls, n, term).text
              ELSE Unmarked(calls[n].name).text]

\* The labels of the rows, top to bottom.
TreeLabels(calls, term, numbers_shown) ==
    [r \in 1..Len(calls) |-> Label(calls, RowCall(calls, r), term, numbers_shown)]

\* The only row of the tree without sessions: "[red]No tmux sessions found[/]".
PlaceholderLabel ==
    [number |-> 0, dimmed |-> FALSE,
     text |-> Unmarked(<<"N", "o", " ", "t", "m", "u", "x", " ", "s", "e", "s", "s",
                         "i", "o", "n", "s", " ", "f", "o", "u", "n", "d">>).text]

\* The numbers of the calls of add() whose marked_name is truthy.
MarkedCalls(calls, term) ==
    {n \in 1..Len(calls) : Truthy(MarkedName(calls, n, term))}

\* What _refresh has once the loops are over: the snapshot done with its jump
\* codes and enabled flags, the rows, first_marked_data and has_disabled_data.
AfterLoops(done, calls, marked, labels) ==
    [sessions |-> done,
     lines |-> TreeLines(done, calls),
     labels |-> labels,
     first_marked_data |->
         IF marked = {} THEN NoNode
         ELSE Ref(ObjAt(done, calls[CHOOSE n \in marked : \A m \in marked : n <= m].path)),
     has_disabled_data |-> marked # 1..Len(calls)]

\* The loops of _refresh over a non-empty snapshot, given the calls of add().
RunLoops(fresh, calls, term, numbers_shown) ==
    AfterLoops(AnnotateAll(fresh, calls, term), calls, MarkedCalls(calls, term),
               TreeLabels(calls, term, numbers_shown))

\* What one run of the body of _refresh computes from a fresh snapshot.
RefreshResult(fresh, hidden_shown, focus, panes_shown, term, numbers_shown) ==
    IF fresh = <<>>
    THEN [sessions |-> <<>>, lines |-> <<NoData>>, labels |-> <<PlaceholderLabel>>,
          first_marked_data |-> NoNode, has_disabled_data |-> FALSE]
    ELSE RunLoops(fresh, AddCalls(fresh, hidden_shown, focus, panes_shown), term,
                  numbers_shown)

(***************************************************************************)
(* External commands (subprocess.run(["tmux", ...]))                       *)
(***************************************************************************)

SessionIds(server) == {server[i].id : i \in 1..Len(server)}
WindowIds(server) ==
    UNION {{server[i].windows[j].id : j \in 1..Len(server[i].windows)} :
            i \in 1..Len(server)}
PaneIds(server) ==
    UNION {UNION {{server[i].windows[j].panes[k].id :
                        k \in 1..Len(server[i].windows[j].panes)} :
                    j \in 1..Len(server[i].windows)} :
            i \in 1..Len(server)}
AllIds(server) == SessionIds(server) \cup WindowIds(server) \cup PaneIds(server)

RECURSIVE Filter(_, _)
Filter(seq, keep) ==
    IF seq = <<>> THEN <<>>
    ELSE (IF Head(seq).id \in keep THEN <<Head(seq)>> ELSE <<>>) \o Filter(Tail(seq), keep)

\* The server after kill-session -t id.
KillSession(server, id) == Filter(server, SessionIds(server) \ {id})

\* The server after kill-window -t id; a session dies with its last window.
KillWindow(server, id) ==
    LET cut == [i \in 1..Len(server) |->
                  [server[i] EXCEPT !.windows = Filter(@, WindowIds(server) \ {id})]]
    IN  Filter(cut, {cut[i].id : i \in {n \in 1..Len(cut) : cut[n].windows # <<>>}})

\* The server after kill-pane -t id; a window dies with its last pane.
KillPane(server, id) ==
    LET cut == [i \in 1..Len(server) |->
                  [server[i] EXCEPT !.windows =
                      [j \in 1..Len(@) |->
                          [@[j] EXCEPT !.panes = Filter(@, PaneIds(server) \ {id})]]]]
        cutw == [i \in 1..Len(cut) |->
                  [cut[i] EXCEPT !.windows =
                      Filter(@, {cut[i].windows[j].id :
                                  j \in {n \in 1..Len(cut[i].windows) :
                                            cut[i].windows[n].panes # <<>>}})]]
    IN  Filter(cutw, {cutw[i].id : i \in {n \in 1..Len(cutw) : cutw[n].windows # <<>>}})

RenameSession(server, id, name) ==
    [i \in 1..Len(server) |->
        IF server[i].id = id THEN [server[i] EXCEPT !.name = name] ELSE server[i]]

RenameWindow(server, id, name) ==
    [i \in 1..Len(server) |->
        [server[i] EXCEPT !.windows =
            [j \in 1..Len(@) |-> IF @[j].id = id THEN [@[j] EXCEPT !.name = name] ELSE @[j]]]]

Cmd(name, target, arg) == [name |-> name, target |-> target, arg |-> arg]

\* Whether the multiplexer accepts the command in this server state.
CmdAccepted(server, cmd) ==
    IF cmd.name = "switch-client" THEN cmd.target \in AllIds(server)
    ELSE IF cmd.name = "kill-session" THEN cmd.target \in SessionIds(server)
    ELSE IF cmd.name = "kill-window" THEN cmd.target \in WindowIds(server)
    ELSE IF cmd.name = "kill-pane" THEN cmd.target \in PaneIds(server)
    ELSE IF cmd.name = "rename-session"
         THEN /\ cmd.target \in SessionIds(server)
              /\ cmd.arg # <<>>
              /\ \A i \in 1..Len(server) :
                    server[i].id # cmd.target => server[i].name # cmd.arg
    ELSE IF cmd.name = "rename-window" THEN cmd.target \in WindowIds(server)
    ELSE FALSE

\* The multiplexer after an accepted command: [server, focus].
CmdEffect(server, focus, cmd) ==
    IF cmd.name = "switch-client" THEN [server |-> server, focus |-> cmd.target]
    ELSE IF cmd.name = "kill-session"
         THEN [server |-> KillSession(server, cmd.target), focus |-> focus]
    ELSE IF cmd.name = "kill-window"
         THEN [server |-> KillWindow(server, cmd.target), focus |-> focus]
    ELSE IF cmd.name = "kill-pane"
         THEN [server |-> KillPane(server, cmd.target), focus |-> focus]
    ELSE IF cmd.name = "rename-session"
         THEN [server |-> RenameSession(server, cmd.target, cmd.arg), focus |-> focus]
    ELSE [server |-> RenameWindow(server, cmd.target, cmd.arg), focus |-> focus]

\* A loop that runs every command whatever the earlier ones returned.
RECURSIVE RunAllIgnoringFailures(_, _, _, _, _)
RunAllIgnoringFailures(server, focus, cmds, fault, log) ==
    IF cmds = <<>> THEN [server |-> server, focus |-> focus, log |-> log]
    ELSE LET cmd == Head(cmds)
             ok == fault # Len(log) + 1 /\ CmdAccepted(server, cmd)
             eff == IF ok THEN CmdEffect(server, focus, cmd)
                    ELSE [server |-> server, focus |-> focus]
         IN  RunAllIgnoringFailures(eff.server, eff.focus, Tail(cmds), fault,
                     Append(log, [name |-> cmd.name, target |-> cmd.target,
                                  arg |-> cmd.arg, ok |-> ok]))

\* "for cmd in cmds: subprocess.run(cmd, check=True)" inside try/except
\* CalledProcessError: the commands run in order and the first one that fails
\* ends the loop.  fault is the number of the command that fails for a reason
\* outside the model (0: none).  The log holds the commands issued, in order,
\* each with its outcome.
RECURSIVE RunAll(_, _, _, _, _)
RunAll(server, focus, cmds, fault, log) ==
    IF cmds = <<>> THEN [server |-> server, focus |-> focus, log |-> log]
    ELSE LET cmd == Head(cmds)
             ok == fault # Len(log) + 1 /\ CmdAccepted(server, cmd)
             entry == [name |-> cmd.name, target |-> cmd.target,
                       arg |-> cmd.arg, ok |-> ok]
         IN  IF ok
             THEN LET eff == CmdEffect(server, focus, cmd)
                  IN  RunAll(eff.server, eff.focus, Tail(cmds), fault, Append(log, entry))
             ELSE [server |-> server, focus |-> focus, log |-> Append(log, entry)]

AllOk(log) == \A n \in 1..Len(log) : log[n].ok

(***************************************************************************)
(* Program state                                                           *)
(***************************************************************************)

VARIABLES
    ext,                    \* the multiplexer's sessions, windows and panes
    failing,                \* the enumeration commands that fail at present
    client_focus,           \* the id the client was last switched to
    initial_session_id,     \* main.py globals
    initial_window_id,
    command_file,
    tmux_sessions,          \* the current snapshot (<<>> models None and [])
    tree_lines,             \* the rows of the Tree widget (data of each node)
    tree_labels,            \* the label of each row
    cursor_line,            \* Tree.cursor_line
    current_tree_node,      \* the data of current_tree_node, NoNode for None
    highlight_history,
    show_numbers,
    show_panes,
    show_guides,
    show_hidden_sessions,
    focus_on_session,
    search_term,
    search_visible,         \* SearchInput.visible
    current_jump_label,     \* <<>> models None
    current_jump_updated,   \* 0 models None
    now,                    \* time.time(), in tenths of a time unit
    modal,                  \* the modal screen on top: "none", "add_window", "rename", "delete"
    phase,                  \* "start", "running", "exited", "crashed"
    last,                   \* what the last handler did (observation only)
    fz                      \* inputs and result of one fuzzy-filter evaluation

vars == <<ext, failing, client_focus, initial_session_id, initial_window_id, command_file,
          tmux_sessions, tree_lines, tree_labels, cursor_line, current_tree_node,
          highlight_history, show_numbers, show_panes, show_guides,
          show_hidden_sessions, focus_on_session, search_term, search_visible,
          current_jump_label, current_jump_updated, now, modal, phase, last, fz>>

\* The program state as one record, for the handlers that run several steps.
State ==
    [ext |-> ext, failing |-> failing, client_focus |-> client_focus,
     initial_session_id |-> initial_session_id,
     initial_window_id |-> initial_window_id, command_file |-> command_file,
     tmux_sessions |-> tmux_sessions, tree_lines |-> tree_lines,
     tree_labels |-> tree_labels,
     cursor_line |-> cursor_line, current_tree_node |-> current_tree_node,
     highlight_history |-> highlight_history, show_numbers |-> show_numbers,
     show_panes |-> show_panes, show_guides |-> show_guides,
     show_hidden_sessions |-> show_hidden_sessions,
     focus_on_session |-> focus_on_session, search_term |-> search_term,
     search_visible |-> search_visible, current_jump_label |-> current_jump_label,
     current_jump_updated |-> current_jump_updated, now |-> now, modal |-> modal,
     phase |-> phase, last |-> last, fz |-> fz]

Becomes(s) ==
    /\ ext' = s.ext
    /\ failing' = s.failing
    /\ client_focus' = s.client_focus
    /\ initial_session_id' = s.initial_session_id
    /\ initial_window_id' = s.initial_window_id
    /\ command_file' = s.command_file
    /\ tmux_sessions' = s.tmux_sessions
    /\ tree_lines' = s.tree_lines
    /\ tree_labels' = s.tree_labels
    /\ cursor_line' = s.cursor_line
    /\ current_tree_node' = s.current_tree_node
    /\ highlight_history' = s.highlight_history
    /\ show_numbers' = s.show_numbers
    /\ show_panes' = s.show_panes
    /\ show_guides' = s.show_guides
    /\ show_hidden_sessions' = s.show_hidden_sessions
    /\ focus_on_session' = s.focus_on_session
    /\ search_term' = s.search_term
    /\ search_visible' = s.search_visible
    /\ current_jump_label' = s.current_jump_label
    /\ current_jump_updated' = s.current_jump_updated
    /\ now' = s.now
    /\ modal' = s.modal
    /\ phase' = s.phase
    /\ last' = s.last
    /\ fz' = s.fz

\* The record kept of the last handler (observation only): its name; the node
\* it acted on and whether that node was displayed on the cursor row when it
\* started; the length of highlight_history when it started; the replacement
\* it chose; the external commands it issued with their outcomes; whether it
\* ran _refresh; its input (a name, a key).  For a digit key: the time of the
\* key, whether it came JUMP_TIMEOUT or more after the last buffered digit,
\* and the key (with the same flag) of the digit step just before it when
\* that step is less than JUMP_TIMEOUT old.
Did(op) ==
    [op |-> op, target |-> NoNode, on_cursor |-> FALSE, hist_len |-> 0,
     next_target |-> NoNode, cmds |-> <<>>, resynced |-> FALSE, arg |-> <<>>,
     at |-> 0, fresh |-> FALSE, prev |-> <<>>, prev_fresh |-> FALSE]

NoFuzzy == [search_term |-> <<>>, parent_name |-> <<>>, name |-> <<>>,
            done |-> FALSE, result |-> NoMarkup]

(***************************************************************************)
(* The Tree widget's cursor                                                *)
(***************************************************************************)

\* The node on a row, NoNode when the row shows nothing.
NodeAtLine(lines, line) ==
    IF line >= 0 /\ line < Len(lines) THEN lines[line + 1] ELSE NoNode

\* Tree.validate_cursor_line: clamp(value, 0, len(lines) - 1)
validate_cursor_line(lines, value) ==
    IF Len(lines) = 0 THEN -1
    ELSE IF value < 0 THEN 0
    ELSE IF value > Len(lines) - 1 THEN Len(lines) - 1
    ELSE value

\* TmuxTree.on_tree_node_highlighted; the outcome of switch-client is not
\* looked at (no check=True).  A pane, and the placeholder row, switch nothing.
on_tree_node_highlighted(s, target) ==
    LET cmd == Cmd("switch-client", target.id, <<>>)
        switched ==
            /\ target.kind \in {"session", "window"}
            /\ CmdAccepted(s.ext, cmd)
            /\ target.kind = "window" => target.session_id \in SessionIds(s.ext)
    IN  [s EXCEPT !.current_tree_node = target,
                  !.highlight_history = Append(@, target),
                  !.client_focus = IF switched THEN target.id ELSE @]

\* "self.cursor_line = value": the value is clamped, and NodeHighlighted is
\* posted when the cursor comes to rest on another row that shows a node.
SetCursorLine(s, value) ==
    LET line == validate_cursor_line(s.tree_lines, value)
        node == NodeAtLine(s.tree_lines, line)
        moved == [s EXCEPT !.cursor_line = line]
    IN  IF line # s.cursor_line /\ node # NoNode
        THEN on_tree_node_highlighted(moved, node)
        ELSE moved

Max(S) == CHOOSE x \in S : \A y \in S : y <= x

\* The generation of the objects the next get_sessions() creates: one not
\* carried by any object the program still refers to.
NewGen(s) ==
    1 + Max({0, s.current_tree_node.gen}
            \cup {s.highlight_history[n].gen : n \in 1..Len(s.highlight_history)})

\* A variant that moves the cursor to the first match whether or not a node
\* was disabled.
RebuiltToFirstMatch(s, r) ==
    LET built == [s EXCEPT !.tmux_sessions = r.sessions,
                           !.tree_lines = r.lines,
                           !.tree_labels = r.labels,
                           !.cursor_line = IF @ >= Len(r.lines) THEN -1 ELSE @,
                           !.last = [@ EXCEPT !.resynced = TRUE]]
    IN  IF r.first_marked_data # NoNode
        THEN SetCursorLine(built, r.first_marked_data.jump_code - 1)
        ELSE built

\* TmuxTree._refresh.  Tree.clear() leaves the cursor on its row if the
\* rebuilt tree still has that row and on no row otherwise.
Rebuilt(s, r) ==
    LET built == [s EXCEPT !.tmux_sessions = r.sessions,
                           !.tree_lines = r.lines,
                           !.tree_labels = r.labels,
                           !.cursor_line = IF @ >= Len(r.lines) THEN -1 ELSE @,
                           !.last = [@ EXCEPT !.resynced = TRUE]]
    IN  IF r.has_disabled_data /\ r.first_marked_data # NoNode
        THEN SetCursorLine(built, r.first_marked_data.jump_code - 1)
        ELSE built

_refresh(s) ==
    Rebuilt(s, RefreshResult(get_sessions(s.ext, NewGen(s), s.failing),
                             s.show_hidden_sessions,
                             s.focus_on_session, s.show_panes, s.search_term,
                             s.show_numbers))

(***************************************************************************)
(* Locating nodes in the current snapshot                                  *)
(***************************************************************************)

\* Every object of a snapshot, in pre-order.
AllObjects(sessions) ==
    Concat([i \in 1..Len(sessions) |->
        <<Ref(sessions[i])>>
        \o Concat([j \in 1..Len(sessions[i].windows) |->
              <<Ref(sessions[i].windows[j])>>
              \o [k \in 1..Len(sessions[i].windows[j].panes) |->
                    Ref(sessions[i].windows[j].panes[k])]])])

\* The first element of seq whose flag in hit is set, NoNode if none is.
FirstWhere(seq, hit) ==
    IF \E n \in 1..Len(seq) : hit[n]
    THEN seq[CHOOSE n \in 1..Len(seq) : hit[n] /\ \A m \in 1..(n - 1) : ~hit[m]]
    ELSE NoNode

\* The last element of seq whose flag in hit is set, NoNode if none is.
LastWhere(seq, hit) ==
    IF \E n \in 1..Len(seq) : hit[n]
    THEN seq[CHOOSE n \in 1..Len(seq) : hit[n] /\ \A m \in (n + 1)..Len(seq) : ~hit[m]]
    ELSE NoNode

\* The flags of the elements of seq that satisfy a test are written
\* [n \in DOMAIN seq |-> Test(seq[n])] at each use.
_find_session_by_name(sessions, name) ==
    LET Named(o) == o.kind = "session" /\ o.name = name
    IN  FirstWhere(AllObjects(sessions),
                   [n \in DOMAIN AllObjects(sessions) |-> Named(AllObjects(sessions)[n])])

\* A session is looked up among the sessions, a window among the windows and
\* anything else among the panes, by id.
_find_target(sessions, tmux_object) ==
    LET wanted == IF tmux_object.kind \in {"session", "window"}
                  THEN tmux_object.kind ELSE "pane"
        Found(o) == o.kind = wanted /\ o.id = tmux_object.id
    IN  FirstWhere(AllObjects(sessions),
                   [n \in DOMAIN AllObjects(sessions) |-> Found(AllObjects(sessions)[n])])

_find_window(sessions, window_id) ==
    LET Found(o) == o.kind = "window" /\ o.id = window_id
    IN  FirstWhere(AllObjects(sessions),
                   [n \in DOMAIN AllObjects(sessions) |-> Found(AllObjects(sessions)[n])])

(***************************************************************************)
(* Delete: the choice of the replacement                                   *)
(***************************************************************************)

\* A variant that only skips the entries with the target's own id.
SessionReplacementById(history, sessions, target) ==
    LET Other(o) == o.kind # "None" /\ o.id # target.id
    IN  LastWhere(history, [n \in DOMAIN history |-> Other(history[n])])

\* handle_delete_session: the most recent history entry whose session id is
\* known and differs from the target's id, else the first other session of
\* the snapshot.
SessionReplacement(history, sessions, target) ==
    LET Elsewhere(o) == get_session_id(o) # None /\ get_session_id(o) # target.id
        OtherSession(o) == o.kind = "session" /\ o.id # target.id
        from_history == LastWhere(history, [n \in DOMAIN history |-> Elsewhere(history[n])])
    IN  IF from_history # NoNode THEN from_history
        ELSE FirstWhere(AllObjects(sessions),
                        [n \in DOMAIN AllObjects(sessions) |->
                            OtherSession(AllObjects(sessions)[n])])

\* The fall-back loop of handle_delete_window: "break" leaves the loop over
\* the windows only, so every session with another window overwrites
\* next_target with its first such window.
WindowFallback(sessions, target) ==
    LET HasOther(sess) == \E j \in 1..Len(sess.windows) : sess.windows[j].id # target.id
        OtherWindow(w) == w.id # target.id
    IN  IF \E i \in 1..Len(sessions) : HasOther(sessions[i])
        THEN LET last_session ==
                     LastWhere(sessions, [n \in DOMAIN sessions |-> HasOther(sessions[n])])
             IN  Ref(FirstWhere(last_session.windows,
                                [n \in DOMAIN last_session.windows |->
                                    OtherWindow(last_session.windows[n])]))
        ELSE NoNode

\* handle_delete_window: the most recent history entry that is not the target
\* object itself ("obj is not target"); an entry None ends the walk and leaves
\* next_target None, so that the fall-back runs.
WindowReplacement(history, sessions, target) ==
    LET NotTarget(o) == ~SameObject(o, target)
        from_history == LastWhere(history, [n \in DOMAIN history |-> NotTarget(history[n])])
    IN  IF from_history # NoNode /\ from_history.kind # "None" THEN from_history
        ELSE WindowFallback(sessions, target)

command_names(kind) ==
    IF kind = "session" THEN "kill-session"
    ELSE IF kind = "window" THEN "kill-window"
    ELSE "kill-pane"

\* The command list of _handle_delete_target, the replacement's switch first.
DeleteCommands(target, next_target) ==
    (IF next_target # NoNode
     THEN <<Cmd("switch-client", next_target.id, <<>>)>> ELSE <<>>)
    \o <<Cmd(command_names(target.kind), target.id, <<>>)>>

\* The state once the commands of an operation have run.
AfterRun(s, run) ==
    [s EXCEPT !.ext = run.server, !.client_focus = run.focus, !.last.cmds = run.log]

\* "if next_target is not None: tree.cursor_line = next_target.jump_code - 1"
CursorToReplacement(fresh, next_target) ==
    IF next_target # NoNode
    THEN SetCursorLine(fresh, next_target.jump_code - 1)
    ELSE fresh

\* _handle_delete_target from the end of the command loop on.
DeleteOutcome(ran, next_target) ==
    IF ~AllOk(ran.last.cmds) THEN ran
    ELSE CursorToReplacement(_refresh(ran), next_target)

\* MainApp._handle_delete_target
_handle_delete_target(s, target, next_target, fault) ==
    DeleteOutcome(AfterRun([s EXCEPT !.last.next_target = next_target],
                           RunAll(s.ext, s.client_focus,
                                  DeleteCommands(target, next_target), fault, <<>>)),
                  next_target)

\* MainApp.handle_delete: a session or a window is deleted, anything else
\* (a pane, the placeholder row) is left alone.
handle_delete(s, fault) ==
    LET target == s.current_tree_node
    IN  IF target = NoNode \/ s.tmux_sessions = <<>> THEN s
        ELSE IF target.kind \in {"session", "window"}
             THEN _handle_delete_target(s, target,
                      IF target.kind = "session"
                      THEN SessionReplacement(s.highlight_history, s.tmux_sessions, target)
                      ELSE WindowReplacement(s.highlight_history, s.tmux_sessions, target),
                      fault)
        ELSE s

(***************************************************************************)
(* The other handlers                                                      *)
(***************************************************************************)

\* A variant that looks the pane itself up when panes are turned off.
ToggleTargetSameNode(sessions, source, panes_shown) ==
    _find_target(sessions, source)

\* The node action_toggle_panes moves the cursor to: the owning window of a
\* pane when panes were turned off, the same node otherwise.
ToggleTarget(sessions, source, panes_shown) ==
    IF source.kind = "pane" /\ ~panes_shown
    THEN _find_window(sessions, source.window_id)
    ELSE _find_target(sessions, source)

\* TmuxTree.action_toggle_panes
\* "if target is not None: self.cursor_line = target.jump_code - 1"
CursorToTarget(fresh, target) ==
    IF target = NoNode THEN fresh
    ELSE SetCursorLine(fresh, target.jump_code - 1)

\* action_toggle_panes after its _refresh.
RelocateAfterToggle(fresh, old_node) ==
    IF old_node = NoNode THEN fresh
    ELSE CursorToTarget(fresh,
                        ToggleTarget(fresh.tmux_sessions, old_node, fresh.show_panes))

\* TmuxTree.action_toggle_panes
action_toggle_panes(s) ==
    RelocateAfterToggle(_refresh([s EXCEPT !.show_panes = ~@]), s.current_tree_node)

\* TmuxTree.action_toggle_other_sessions
action_toggle_other_sessions(s) ==
    _refresh([s EXCEPT !.focus_on_session =
                IF @ = None /\ s.current_tree_node # NoNode
                THEN get_session_id(s.current_tree_node)
                ELSE None])

\* handle_rename after its _refresh: the cursor goes to the session that now
\* has the name, if a session was renamed.
RelocateAfterRename(fresh, target, name) ==
    IF target.kind = "session"
    THEN CursorToTarget(fresh, _find_session_by_name(fresh.tmux_sessions, name))
    ELSE fresh

\* handle_rename from the end of subprocess.run on.
RenameOutcome(ran, target, name) ==
    IF ~AllOk(ran.last.cmds) THEN ran
    ELSE RelocateAfterRename(_refresh(ran), target, name)

\* A variant that renames a pane with the command it uses for a window.
\* (MainApp.handle_rename itself follows: renaming anything but a session or a
\* window raises NotImplementedError, which ends the application.)
HandleRenameAnyKind(s, name, fault) ==
    IF s.current_tree_node = NoNode THEN s
    ELSE RenameOutcome(
             AfterRun(s, RunAll(s.ext, s.client_focus,
                                <<Cmd(IF s.current_tree_node.kind = "session"
                                      THEN "rename-session" ELSE "rename-window",
                                      s.current_tree_node.id, name)>>,
                                fault, <<>>)),
             s.current_tree_node, name)

handle_rename(s, name, fault) ==
    LET target == s.current_tree_node
        cmd == IF target.kind = "session"
               THEN Cmd("rename-session", target.id, name)
               ELSE Cmd("rename-window", target.id, name)
    IN  IF target = NoNode THEN s
        ELSE IF target.kind \notin {"session", "window"}
             THEN [s EXCEPT !.phase = "crashed"]
        ELSE RenameOutcome(AfterRun(s, RunAll(s.ext, s.client_focus, <<cmd>>,
                                              fault, <<>>)),
                           target, name)

\* A variant that always places the new window after the target.
HandleAddWindowAlwaysAfter(s, name) ==
    IF s.current_tree_node = NoNode THEN s
    ELSE IF s.command_file = None THEN s
    ELSE IF s.current_tree_node.kind = "None" THEN [s EXCEPT !.phase = "crashed"]
    ELSE [s EXCEPT !.phase = "exited",
                   !.last = [@ EXCEPT !.cmds =
                               <<[name |-> "new-window",
                                  target |-> s.current_tree_node.id,
                                  arg |-> <<"a">> \o name, ok |-> TRUE]>>]]

\* MainApp.handle_add_window: the command is written to the command file and
\* the application exits; without a command file nothing happens.  The
\* placeholder row has no data, and reading its id raises.
handle_add_window(s, name) ==
    LET target == s.current_tree_node
        position == IF target.kind = "session" THEN "b" ELSE "a"
    IN  IF target = NoNode THEN s
        ELSE IF s.command_file = None THEN s
        ELSE IF target.kind = "None" THEN [s EXCEPT !.phase = "crashed"]
        ELSE [s EXCEPT !.phase = "exited",
                       !.last = [@ EXCEPT !.cmds =
                                   <<[name |-> "new-window", target |-> target.id,
                                      arg |-> <<position>> \o name, ok |-> TRUE]>>]]

\* "self.app.pop_screen()" at the end of a modal's handler; it is not reached
\* when the callback raised.
pop_screen(s) ==
    IF s.phase = "crashed" THEN s ELSE [s EXCEPT !.modal = "none"]

\* A variant in which the escape key goes on to MainApp.on_key.
ModalEscapeBubbles(s) == [pop_screen(s) EXCEPT !.phase = "exited"]

\* InputModal.on_key, ConfirmationModal.on_key for escape: the screen is
\* popped and event.stop() keeps the key from MainApp.on_key, which would
\* exit the application.
modal_escape(s) == pop_screen(s)

\* The modal an entry point of the tree opens: action_add_window,
\* action_delete_target, action_rename_target.
EntryModal(key) ==
    IF key = "a" THEN "add_window" ELSE IF key = "d" THEN "delete" ELSE "rename"

\* A variant in which the tree's bindings stay active under a modal.
ModalKeyReachesTree(s, key) == [s EXCEPT !.modal = EntryModal(key)]

\* InputModal.on_key, ConfirmationModal.on_key for a key other than escape
\* (and "y"): the key goes to the modal screen's focused widget and no
\* further; the bindings of the tree on the screen below are not consulted.
modal_on_key(s, key) == s

\* The target of the switch-client of action_cancel_selection: the start-up
\* window if the start-up session still has it, else the start-up session.
CancelTarget(sessions, session_id, window_id) ==
    LET InitialWindow(o) ==
            o.kind = "window" /\ o.session_id = session_id /\ o.id = window_id
        InitialSession(o) == o.kind = "session" /\ o.id = session_id
        window == FirstWhere(AllObjects(sessions),
                      [n \in DOMAIN AllObjects(sessions) |->
                          InitialWindow(AllObjects(sessions)[n])])
    IN  IF window # NoNode THEN window
        ELSE FirstWhere(AllObjects(sessions),
                        [n \in DOMAIN AllObjects(sessions) |->
                            InitialSession(AllObjects(sessions)[n])])

\* TmuxTree.action_cancel_selection
action_cancel_selection(s) ==
    LET target == CancelTarget(s.tmux_sessions, s.initial_session_id, s.initial_window_id)
        cmd == Cmd("switch-client", target.id, <<>>)
        ok == target # NoNode /\ CmdAccepted(s.ext, cmd)
    IN  [s EXCEPT !.phase = "exited",
                  !.client_focus = IF ok THEN target.id ELSE @,
                  !.last = [@ EXCEPT !.cmds =
                              IF target = NoNode THEN <<>>
                              ELSE <<[name |-> cmd.name, target |-> cmd.target,
                                      arg |-> cmd.arg, ok |-> ok]>>]]

(***************************************************************************)
(* Jump addressing: TmuxTree.on_key                                        *)
(***************************************************************************)

\* Time is counted in tenths of a time unit: JUMP_TIMEOUT = 0.5.
JUMP_TIMEOUT == 5

DigitValue(key) ==
    IF key = "0" THEN 0 ELSE IF key = "1" THEN 1 ELSE IF key = "2" THEN 2
    ELSE IF key = "3" THEN 3 ELSE IF key = "4" THEN 4 ELSE IF key = "5" THEN 5
    ELSE IF key = "6" THEN 6 ELSE IF key = "7" THEN 7 ELSE IF key = "8" THEN 8
    ELSE 9

\* int(current_jump_label)
RECURSIVE IntOf(_)
IntOf(label) ==
    IF label = <<>> THEN 0
    ELSE 10 * IntOf(SubSeq(label, 1, Len(label) - 1)) + DigitValue(label[Len(label)])

\* A variant in which every digit starts a new buffer.
NextJumpLabelAlwaysNew(label, updated, time, key) == <<key>>

\* The buffer after a digit key: extended if the previous digit is less than
\* JUMP_TIMEOUT old, started anew otherwise.
NextJumpLabel(label, updated, time, key) ==
    IF updated # 0 /\ time - updated < JUMP_TIMEOUT
    THEN Append(label, key)
    ELSE <<key>>

\* on_mount after its _refresh.
CursorToInitialWindow(fresh) ==
    CursorToTarget(fresh, _find_window(fresh.tmux_sessions, fresh.initial_window_id))

\* TmuxTree.on_mount
on_mount(s) == CursorToInitialWindow(_refresh([s EXCEPT !.phase = "running"]))

\* TmuxTree.on_key for a digit key
on_key(s, key) ==
    IF ~s.show_numbers THEN s
    ELSE LET label == NextJumpLabel(s.current_jump_label, s.current_jump_updated,
                                    s.now, key)
         IN  SetCursorLine([s EXCEPT !.current_jump_label = label,
                                     !.current_jump_updated = s.now],
                           IntOf(label) - 1)

(***************************************************************************)
(* Bounds and inputs                                                       *)
(***************************************************************************)

\* The most entries highlight_history holds in the model.
MaxHist == 3
\* The last value of the clock.
MaxNow == 6
\* The most digits of a jump buffer.
MaxLabel == 2

\* A server with two sessions, three windows and a pane in each window.
MainWorld ==
    <<[id |-> "s1", name |-> <<"A">>, windows |->
         <<[id |-> "w1", name |-> <<"a", "1">>, index |-> "0", panes |->
              <<[id |-> "p1", name |-> <<"p">>, index |-> "0"]>>],
           [id |-> "w2", name |-> <<"a", "2">>, index |-> "1", panes |->
              <<[id |-> "p2", name |-> <<"p">>, index |-> "0"]>>]>>],
      [id |-> "s2", name |-> <<"B">>, windows |->
         <<[id |-> "w3", name |-> <<"b", "1">>, index |-> "0", panes |->
              <<[id |-> "p3", name |-> <<"p">>, index |-> "0"]>>]>>]>>

\* A server with a session that is hidden by default (its name starts "__").
HiddenWorld ==
    <<[id |-> "s1", name |-> <<"_", "_", "h">>, windows |->
         <<[id |-> "w1", name |-> <<"b", "1">>, index |-> "0", panes |->
              <<[id |-> "p1", name |-> <<"p">>, index |-> "0"]>>]>>],
      [id |-> "s2", name |-> <<"A">>, windows |->
         <<[id |-> "w2", name |-> <<"a", "1">>, index |-> "0", panes |->
              <<[id |-> "p2", name |-> <<"p">>, index |-> "0"]>>],
           [id |-> "w3", name |-> <<"a", "2">>, index |-> "1", panes |-> <<>>]>>],
      [id |-> "s3", name |-> <<"B">>, windows |-> <<>>]>>

\* A server whose tree has twelve rows with panes hidden: four sessions of
\* two windows, a pane in each window.
JumpSessionIds == <<"s1", "s2", "s3", "s4">>
JumpSessionNames == << <<"A">>, <<"B">>, <<"C">>, <<"D">> >>
JumpWindowIds == << <<"w1", "w2">>, <<"w3", "w4">>, <<"w5", "w6">>, <<"w7", "w8">> >>
JumpPaneIds == << <<"p1", "p2">>, <<"p3", "p4">>, <<"p5", "p6">>, <<"p7", "p8">> >>
JumpWindowIndexes == <<"0", "1">>
JumpWorld ==
    [i \in 1..4 |->
        [id |-> JumpSessionIds[i], name |-> JumpSessionNames[i], windows |->
            [j \in 1..2 |->
                [id |-> JumpWindowIds[i][j], name |-> <<"a">>,
                 index |-> JumpWindowIndexes[j], panes |->
                    <<[id |-> JumpPaneIds[i][j], name |-> <<"p">>, index |-> "0"]>>]]]]

\* The windows the client can be on when the program starts.
InitialWindows(world) ==
    UNION {{[session_id |-> world[i].id, window_id |-> world[i].windows[j].id] :
                j \in 1..Len(world[i].windows)} : i \in 1..Len(world)}

\* The values typed into the search box and into the rename box.
SearchTerms == {<<>>, <<"1">>, <<"b", "/">>}
NewNames == {<<"B">>}
\* Names that make a session a hidden one.
HiddenNames == {<<"_", "_", "c">>}
DigitKeys == {"1", "2"}
EntryKeys == {"a", "d", "r"}
\* The enumeration commands that can fail: list-sessions, list-windows of
\* session s1 and list-panes of window w2.
FailingTargets == {"list-sessions", "s1", "w2"}
\* The most characters typed into the search box, and the keys typed.
MaxSearchLen == 2
SearchKeys == {"a", "1"}

(***************************************************************************)
(* Initial state: the globals of main.py as the module sets them, with the *)
(* start-up session and window read by _set_initial_session_and_window.    *)
(***************************************************************************)

InitWithFile(world, start, file) ==
    /\ ext = world
    /\ failing = {}
    /\ client_focus = start.window_id
    /\ initial_session_id = start.session_id
    /\ initial_window_id = start.window_id
    /\ command_file = file
    /\ tmux_sessions = <<>>
    /\ tree_lines = <<>>
    /\ tree_labels = <<>>
    /\ cursor_line = -1
    /\ current_tree_node = NoNode
    /\ highlight_history = <<>>
    /\ show_numbers = FALSE
    /\ show_panes = FALSE
    /\ show_guides = TRUE
    /\ show_hidden_sessions = FALSE
    /\ focus_on_session = None
    /\ search_term = <<>>
    /\ search_visible = FALSE
    /\ current_jump_label = <<>>
    /\ current_jump_updated = 0
    /\ now = 1
    /\ modal = "none"
    /\ phase = "start"
    /\ last = Did("init")
    /\ fz = NoFuzzy

\* Started with --command-file, as the tmux key binding starts the program.
InitWith(world, start) == InitWithFile(world, start, "commands")

Init == \E start \in InitialWindows(MainWorld) : InitWith(MainWorld, start)

\* Started with or without --command-file.
InitModal ==
    \E file \in {"commands", None} :
        InitWithFile(MainWorld, [session_id |-> "s1", window_id |-> "w1"], file)

\* The inputs of one evaluation of the fuzzy filter as add() makes it: any
\* term, the parent's name (empty for a session node and under an unnamed
\* window) and the node's label, which is never empty (an unnamed window or
\* pane is labelled "Window <index>" or "Pane <index>").
MaxTermLen == 3
MaxNameLen == 2
TermChars == {"a", "A", "b", "/", " "}
NameChars == {"a", "B"}
StringsUpTo(chars, n) == UNION {[1..k -> chars] : k \in 0..n}

InitFuzzyOver(terms, parents, names) ==
    /\ ext = <<>>
    /\ failing = {}
    /\ client_focus = None
    /\ initial_session_id = None
    /\ initial_window_id = None
    /\ command_file = None
    /\ tmux_sessions = <<>>
    /\ tree_lines = <<>>
    /\ tree_labels = <<>>
    /\ cursor_line = -1
    /\ current_tree_node = NoNode
    /\ highlight_history = <<>>
    /\ show_numbers = FALSE
    /\ show_panes = FALSE
    /\ show_guides = TRUE
    /\ show_hidden_sessions = FALSE
    /\ focus_on_session = None
    /\ search_term = <<>>
    /\ search_visible = FALSE
    /\ current_jump_label = <<>>
    /\ current_jump_updated = 0
    /\ now = 1
    /\ modal = "none"
    /\ phase = "start"
    /\ last = Did("init")
    /\ \E term \in terms, parent \in parents, name \in names :
            fz = [search_term |-> term, parent_name |-> parent, name |-> name,
                  done |-> FALSE, result |-> NoMarkup]

InitFuzzy ==
    InitFuzzyOver(StringsUpTo(TermChars, MaxTermLen),
                  StringsUpTo(NameChars, MaxNameLen),
                  StringsUpTo(NameChars, MaxNameLen) \ {<<>>})

\* The inputs of an evaluation for a node with a longer label, under the root
\* or under a parent named "a".
MaxLabelLen == 3
LabelTermChars == {"a", "b", "/", " "}
LabelChars == {"a", "B", "x"}

InitLabel ==
    InitFuzzyOver(StringsUpTo(LabelTermChars, MaxTermLen),
                  {<<>>, <<"a">>},
                  StringsUpTo(LabelChars, MaxLabelLen) \ {<<>>})

InitTree == InitWith(HiddenWorld, [session_id |-> "s2", window_id |-> "w2"])

\* The same server, started from any of its windows, the hidden session's
\* window included.
InitHidden == \E start \in InitialWindows(HiddenWorld) : InitWith(HiddenWorld, start)

InitJump == InitWith(JumpWorld, [session_id |-> "s1", window_id |-> "w1"])

(***************************************************************************)
(* Actions: one per handler                                                *)
(***************************************************************************)

\* The step to state s, allowed while the history fits the model's bound.
Step(s) == Len(s.highlight_history) <= MaxHist /\ Becomes(s)

Begin(op) == [State EXCEPT !.last = Did(op)]

TreeFocused == phase = "running" /\ modal = "none"

\* Whether node is the node displayed on the cursor row.
OnCursor(node) ==
    /\ node # NoNode
    /\ NodeAtLine(tree_lines, cursor_line) = node

BeginOn(op) ==
    [State EXCEPT !.last = [Did(op) EXCEPT !.target = current_tree_node,
                                           !.on_cursor = OnCursor(current_tree_node),
                                           !.hist_len = Len(highlight_history)]]

\* TmuxTree.on_mount
Mount ==
    /\ phase = "start"
    /\ Step(on_mount(Begin("mount")))

\* action_move_down, action_move_up: Tree.action_cursor_down and
\* action_cursor_up move the cursor by one row; from the last row down and
\* from the first row up the cursor stays or wraps around, depending on the
\* version of the widget library; with no cursor row, down goes to the first
\* row and up to the last.
MoveUpDown ==
    /\ TreeFocused
    /\ \E line \in 0..(Len(tree_lines) - 1) :
          /\ line # cursor_line
          /\ \/ line \in {cursor_line - 1, cursor_line + 1}
             \/ line = 0 /\ cursor_line \in {-1, Len(tree_lines) - 1}
             \/ line = Len(tree_lines) - 1 /\ cursor_line \in {-1, 0}
          /\ Step(SetCursorLine(Begin("other"), line))

\* A click on a row, which moves the cursor to it.
MoveCursor ==
    /\ TreeFocused
    /\ \E line \in 0..(Len(tree_lines) - 1) :
          /\ line # cursor_line
          /\ Step(SetCursorLine(Begin("other"), line))

ToggleGuides ==
    /\ TreeFocused
    /\ Step(_refresh([Begin("other") EXCEPT !.show_guides = ~@]))

ToggleNumbers ==
    /\ TreeFocused
    /\ Step(_refresh([Begin("other") EXCEPT !.show_numbers = ~@]))

ToggleHiddenSessions ==
    /\ TreeFocused
    /\ Step(_refresh([Begin("other") EXCEPT !.show_hidden_sessions = ~@]))

ToggleOtherSessions ==
    /\ TreeFocused
    /\ Step(action_toggle_other_sessions(Begin("other")))

TogglePanes ==
    /\ TreeFocused
    /\ Step(action_toggle_panes(BeginOn("toggle_panes")))

\* MainApp.action_toggle_search; emptying the Input posts Input.Changed
ToggleSearch ==
    /\ TreeFocused
    /\ IF search_visible
       THEN Step([Begin("other") EXCEPT !.search_visible = FALSE])
       ELSE Step(IF search_term # <<>>
                 THEN _refresh([Begin("other") EXCEPT !.search_visible = TRUE,
                                                      !.search_term = <<>>])
                 ELSE [Begin("other") EXCEPT !.search_visible = TRUE])

\* SearchInput.on_input_changed
SearchChanged ==
    /\ TreeFocused
    /\ search_visible
    /\ \E value \in SearchTerms :
          /\ value # search_term
          /\ Step(_refresh([Begin("other") EXCEPT !.search_term = value]))

\* A key typed into the search box: Input.Changed carries the value with the
\* key appended, and SearchInput.on_input_changed runs.
SearchTyped ==
    /\ TreeFocused
    /\ search_visible
    /\ Len(search_term) < MaxSearchLen
    /\ \E key \in SearchKeys :
          Step(_refresh([Begin("other") EXCEPT !.search_term = Append(@, key)]))

\* SearchInput.on_key("escape")
SearchEscape ==
    /\ TreeFocused
    /\ search_visible
    /\ Step(IF search_term # <<>>
            THEN _refresh([Begin("other") EXCEPT !.search_visible = FALSE,
                                                 !.search_term = <<>>])
            ELSE [Begin("other") EXCEPT !.search_visible = FALSE])

\* The environment: enumeration commands start or stop failing.
ProviderFault ==
    /\ phase \in {"start", "running"}
    /\ \E failed \in SUBSET FailingTargets :
          /\ failed # failing
          /\ Step([Begin("other") EXCEPT !.failing = failed])

\* TmuxTree.action_delete_target; the message reads target.name, which the
\* placeholder row's data (None) does not have.
OpenDelete ==
    /\ TreeFocused
    /\ current_tree_node # NoNode
    /\ Step(IF current_tree_node.kind = "None"
            THEN [Begin("other") EXCEPT !.phase = "crashed"]
            ELSE [Begin("other") EXCEPT !.modal = "delete"])

\* ConfirmationModal._accept with callback MainApp.handle_delete
ConfirmDelete ==
    /\ phase = "running"
    /\ modal = "delete"
    /\ \E fault \in 0..2 :
          Step(pop_screen(handle_delete(BeginOn("delete"), fault)))

OpenRename ==
    /\ TreeFocused
    /\ Step([Begin("other") EXCEPT !.modal = "rename"])

\* InputModal.on_input_submitted with callback MainApp.handle_rename
SubmitRename ==
    /\ phase = "running"
    /\ modal = "rename"
    /\ \E name \in NewNames, fault \in 0..1 :
          Step(pop_screen(handle_rename([BeginOn("rename") EXCEPT !.last.arg = name],
                                        name, fault)))

\* The same with a name that starts with "__".
SubmitRenameHidden ==
    /\ phase = "running"
    /\ modal = "rename"
    /\ \E name \in HiddenNames :
          Step(pop_screen(handle_rename([BeginOn("rename") EXCEPT !.last.arg = name],
                                        name, 0)))

OpenAddWindow ==
    /\ TreeFocused
    /\ Step([Begin("other") EXCEPT !.modal = "add_window"])

\* InputModal.on_input_submitted with callback MainApp.handle_add_window
SubmitAddWindow ==
    /\ phase = "running"
    /\ modal = "add_window"
    /\ \E name \in NewNames :
          Step(pop_screen(handle_add_window([BeginOn("add_window") EXCEPT
                                                !.last.arg = name], name)))

\* InputModal.on_key("escape"), ConfirmationModal.on_key("escape")
CancelModal ==
    /\ phase = "running"
    /\ modal # "none"
    /\ Step(modal_escape([Begin("cancel_modal") EXCEPT !.last.arg = <<modal>>]))

\* A key of the tree's bindings (a, d, r) pressed while a modal is open.
ModalKey ==
    /\ phase = "running"
    /\ modal # "none"
    /\ \E key \in EntryKeys :
          Step(modal_on_key([Begin("modal_key") EXCEPT !.last.arg = <<key>>], key))

\* TmuxTree.action_make_selection
MakeSelection ==
    /\ TreeFocused
    /\ Step([BeginOn("make_selection") EXCEPT !.phase = "exited"])

CancelSelection ==
    /\ TreeFocused
    /\ Step(action_cancel_selection(Begin("cancel_selection")))

\* A digit key on the tree.
DigitKey ==
    /\ TreeFocused
    /\ \E key \in DigitKeys :
          LET follows == last.op = "digit" /\ now - last.at < JUMP_TIMEOUT
              fresh == ~(current_jump_updated # 0
                           /\ now - current_jump_updated < JUMP_TIMEOUT)
              s == on_key([State EXCEPT !.last =
                              [Did("digit") EXCEPT
                                  !.arg = <<key>>, !.at = now, !.fresh = fresh,
                                  !.prev = IF follows THEN last.arg ELSE <<>>,
                                  !.prev_fresh = follows /\ last.fresh]], key)
          IN  Len(s.current_jump_label) <= MaxLabel /\ Step(s)

\* Time passes.
Tick ==
    /\ phase = "running"
    /\ now < MaxNow
    /\ now' = now + 1
    /\ UNCHANGED <<ext, failing, client_focus, initial_session_id, initial_window_id,
                   command_file, tmux_sessions, tree_lines, tree_labels, cursor_line,
                   current_tree_node, highlight_history, show_numbers, show_panes,
                   show_guides, show_hidden_sessions, focus_on_session, search_term,
                   search_visible, current_jump_label, current_jump_updated, modal,
                   phase, last, fz>>

\* One evaluation of _apply_fuzzy_markup, as add() makes it.
FuzzyEval ==
    /\ ~fz.done
    /\ fz' = [fz EXCEPT !.done = TRUE,
                        !.result = _apply_fuzzy_markup(fz.search_term, fz.parent_name,
                                                       fz.name)]
    /\ UNCHANGED <<ext, failing, client_focus, initial_session_id, initial_window_id,
                   command_file, tmux_sessions, tree_lines, tree_labels, cursor_line,
                   current_tree_node, highlight_history, show_numbers, show_panes,
                   show_guides, show_hidden_sessions, focus_on_session, search_term,
                   search_visible, current_jump_label, current_jump_updated, now,
                   modal, phase, last>>

\* The coordinator: cursor moves, pane toggling and delete.
Next ==
    \/ Mount
    \/ MoveCursor
    \/ TogglePanes
    \/ OpenDelete
    \/ ConfirmDelete
    \/ CancelModal

Spec == Init /\ [][Next]_vars

\* The mutations and their failures: delete and rename from any row.
NextMutations ==
    \/ Mount
    \/ MoveCursor
    \/ ToggleNumbers
    \/ OpenDelete
    \/ ConfirmDelete
    \/ OpenRename
    \/ SubmitRename
    \/ CancelModal

SpecMutations == Init /\ [][NextMutations]_vars

\* The coordinator on a server with a hidden session.
SpecHidden == InitHidden /\ [][Next]_vars

\* The tree synchronizer: every toggle and the search box.
NextTree ==
    \/ Mount
    \/ ToggleGuides
    \/ ToggleNumbers
    \/ ToggleHiddenSessions
    \/ ToggleOtherSessions
    \/ TogglePanes
    \/ ToggleSearch
    \/ SearchChanged
    \/ SearchEscape

SpecTree == InitTree /\ [][NextTree]_vars

\* Pane toggling from any row, with hidden sessions and the search filter.
NextPanes ==
    \/ Mount
    \/ MoveUpDown
    \/ ToggleHiddenSessions
    \/ TogglePanes
    \/ ToggleSearch
    \/ SearchChanged

SpecPanes == InitTree /\ [][NextPanes]_vars

\* The search box typed into key by key.
NextSearch ==
    \/ Mount
    \/ MoveUpDown
    \/ ToggleNumbers
    \/ ToggleSearch
    \/ SearchTyped
    \/ SearchEscape

SpecSearch == InitTree /\ [][NextSearch]_vars

\* The modal operations: add window, rename and delete, opened, cancelled
\* and submitted from any row.
NextModal ==
    \/ Mount
    \/ MoveUpDown
    \/ TogglePanes
    \/ OpenAddWindow
    \/ SubmitAddWindow
    \/ OpenRename
    \/ SubmitRename
    \/ OpenDelete
    \/ ConfirmDelete
    \/ CancelModal
    \/ ModalKey

SpecModal == InitModal /\ [][NextModal]_vars

\* Rename under every toggle.
NextRename ==
    \/ Mount
    \/ MoveUpDown
    \/ ToggleHiddenSessions
    \/ TogglePanes
    \/ OpenRename
    \/ SubmitRename
    \/ SubmitRenameHidden
    \/ CancelModal

SpecRename == InitWith(MainWorld, [session_id |-> "s1", window_id |-> "w1"])
                  /\ [][NextRename]_vars

\* Leaving the program: enter and escape on the tree.
NextExit ==
    \/ Mount
    \/ MoveUpDown
    \/ TogglePanes
    \/ MakeSelection
    \/ CancelSelection

SpecExit == Init /\ [][NextExit]_vars

\* Resyncs while enumeration commands fail.
NextProvider ==
    \/ Mount
    \/ TogglePanes
    \/ ToggleNumbers
    \/ ProviderFault

SpecProvider == InitWith(MainWorld, [session_id |-> "s1", window_id |-> "w1"])
                    /\ [][NextProvider]_vars

\* Jump addressing: digit keys and the clock.
NextJump ==
    \/ Mount
    \/ ToggleNumbers
    \/ DigitKey
    \/ Tick

SpecJump == InitJump /\ [][NextJump]_vars

\* The fuzzy filter on its own.
NextFuzzy == FuzzyEval

SpecFuzzy == InitFuzzy /\ [][NextFuzzy]_vars

\* The fuzzy filter on longer labels.
SpecLabel == InitLabel /\ [][NextFuzzy]_vars

(***************************************************************************)
(* Properties                                                              *)
(***************************************************************************)

\* p is an ordered, not necessarily contiguous, subsequence of s.
IsSubsequence(p, s) ==
    \E f \in [1..Len(p) -> 1..Len(s)] :
        /\ \A i \in 1..Len(p) : s[f[i]] = p[i]
        /\ \A i, j \in 1..Len(p) : i < j => f[i] < f[j]

\* The part of the evaluated term before "/" is not a case-insensitive
\* subsequence of the parent's name.
ParentPartFails ==
    /\ fz.done
    /\ HasSlash(fz.search_term)
    /\ ~IsSubsequence(Lower(BeforeSlash(fz.search_term)), Lower(fz.parent_name))

\* C10 as stated: for every term with "/", every parent name (the empty one
\* of a session node included) and every candidate name, if the part before
\* "/" is not a case-insensitive ordered subsequence of the parent's name the
\* match fails and the node is disabled (is_enabled = bool(marked_name)).
C10_ParentScopeRejects ==
    ParentPartFails => ~fz.result.matched /\ ~Truthy(fz.result)

\* C10 amended: the same, for the nodes whose parent name is not empty
\* (windows and panes); a session node is matched on its own name only.
C10_ParentScopeRejectsUnderNamedParent ==
    (ParentPartFails /\ fz.parent_name # <<>>)
        => ~fz.result.matched /\ ~Truthy(fz.result)

\* C10 witness: a candidate rejected for its parent alone, its own name
\* consuming the whole part after "/".
C10_RejectedForParentOnly ==
    /\ ParentPartFails
    /\ fz.parent_name # <<>>
    /\ fz.name # <<>>
    /\ AfterSlash(fz.search_term) # <<>>
    /\ OwnNameMarkup(AfterSlash(fz.search_term), fz.name).matched
    /\ ~fz.result.matched

\* The rows of the displayed tree that show the node with o's identity.
RowsOf(o) ==
    {r \in 1..Len(tree_lines) : tree_lines[r].kind = o.kind /\ tree_lines[r].id = o.id}

\* The last handler was a confirmed delete that issued commands, all accepted.
DeleteSucceeded == last.op = "delete" /\ last.cmds # <<>> /\ AllOk(last.cmds)

\* C1 as stated: after a confirmed delete whose commands all succeed, with a
\* replacement R that the rebuilt tree displays, the cursor is on the row of
\* the node with R's identity: R's jump code in the rebuilt tree minus 1.
C1_CursorOnReplacementRow ==
    (DeleteSucceeded /\ last.next_target # NoNode /\ RowsOf(last.next_target) # {})
        => \E r \in RowsOf(last.next_target) :
                cursor_line = tree_lines[r].jump_code - 1

KillNames == {"kill-session", "kill-window", "kill-pane"}

KillNameOf(kind) ==
    IF kind = "session" THEN "kill-session"
    ELSE IF kind = "window" THEN "kill-window"
    ELSE "kill-pane"

\* The positions of the destructive commands in a log.
Kills(log) == {n \in 1..Len(log) : log[n].name \in KillNames}

SwitchFailed(log) ==
    \E n \in 1..Len(log) : log[n].name = "switch-client" /\ ~log[n].ok

\* C2 as stated: a delete confirmed with the cursor on a session, a window or
\* a pane issues exactly one destructive command, the one of the node's kind,
\* on the node's id (unless the switch to the replacement failed first).
C2_OneKillOfTheNodesKind ==
    (/\ last.op = "delete"
     /\ last.on_cursor
     /\ last.target.kind \in {"session", "window", "pane"}
     /\ ~SwitchFailed(last.cmds))
        => \E n \in 1..Len(last.cmds) :
              /\ Kills(last.cmds) = {n}
              /\ last.cmds[n].name = KillNameOf(last.target.kind)
              /\ last.cmds[n].target = last.target.id

\* The visitation history as the last handler found it.
HistoryBefore == SubSeq(highlight_history, 1, last.hist_len)

\* o is session S, or a window or a pane of S.
BelongsTo(o, S) ==
    \/ o.kind = "session" /\ o.id = S
    \/ o.kind \in {"window", "pane"} /\ o.session_id = S

\* The positions of the history entries that are objects outside session S.
OutsideEntries(history, S) ==
    {n \in 1..Len(history) : history[n].kind # "None" /\ ~BelongsTo(history[n], S)}

SessionDeleteRan ==
    last.op = "delete" /\ last.target.kind = "session" /\ last.cmds # <<>>

\* C3: when session S is deleted, the replacement is the most recent history
\* entry that is neither S nor a window or pane of S; when the history has no
\* such entry the replacement is not taken from S either.
C3_SessionReplacementOutsideSession ==
    SessionDeleteRan =>
        LET S == last.target.id
            outside == OutsideEntries(HistoryBefore, S)
        IN  /\ outside # {} => last.next_target = HistoryBefore[Max(outside)]
            /\ last.next_target # NoNode => ~BelongsTo(last.next_target, S)

\* C3 witness: the spec's example; the two most recent entries are the deleted
\* session and one of its windows, and the entry before them is chosen.
C3_SkippedWindowOfDeletedSession ==
    /\ SessionDeleteRan
    /\ last.hist_len = 3
    /\ HistoryBefore[3].kind = "session" /\ HistoryBefore[3].id = last.target.id
    /\ HistoryBefore[2].kind = "window" /\ BelongsTo(HistoryBefore[2], last.target.id)
    /\ last.next_target = HistoryBefore[1]
    /\ ~BelongsTo(HistoryBefore[1], last.target.id)

\* C4 as stated: when window W is deleted, the replacement is never W itself
\* (the same id), whatever generation its history entries were recorded in.
C4_WindowReplacementIsNotTheWindow ==
    (last.op = "delete" /\ last.target.kind = "window" /\ last.cmds # <<>>)
        => ~(last.next_target.kind = "window" /\ last.next_target.id = last.target.id)

\* With a replacement, the kill is the second command and the first is the
\* switch to the replacement, which succeeded.
SwitchPrecedesKill ==
    \A n \in Kills(last.cmds) :
        /\ n = 2
        /\ last.cmds[1].name = "switch-client"
        /\ last.cmds[1].target = last.next_target.id
        /\ last.cmds[1].ok

\* C5 as stated: with a replacement, the switch to it is issued and has
\* succeeded before the kill is issued, so that when the kill is issued the
\* external focus, which that switch set, is not on the target.
C5_SwitchedAwayBeforeKill ==
    (last.op = "delete" /\ last.next_target # NoNode)
        => /\ SwitchPrecedesKill
           /\ \A n \in Kills(last.cmds) :
                 last.cmds[n - 1].target # last.cmds[n].target

\* A delete, a rename one of whose commands failed.
OperationFailed(l) ==
    l.op \in {"delete", "rename"} /\ l.cmds # <<>> /\ ~AllOk(l.cmds)

\* C6: when a command of a confirmed delete or rename fails, it is the last
\* command issued (after a failed switch no kill is issued), no resync is
\* made, and the displayed tree, the cursor and the toggle flags are what
\* they were when the modal was confirmed.
C6_FailureEndsOperationUiUntouched ==
    [][(modal # "none" /\ OperationFailed(last'))
          => /\ \A n \in 1..Len(last'.cmds) :
                    ~last'.cmds[n].ok => n = Len(last'.cmds)
             /\ SwitchFailed(last'.cmds) => Kills(last'.cmds) = {}
             /\ ~last'.resynced
             /\ UNCHANGED <<tmux_sessions, tree_lines, tree_labels, cursor_line,
                            current_tree_node, highlight_history, show_numbers,
                            show_panes, show_guides, show_hidden_sessions,
                            focus_on_session, search_term, search_visible>>]_vars

\* C6 witness: a delete whose switch to the replacement failed and that
\* issued nothing else.
C6_DeleteStoppedAtFailedSwitch ==
    /\ last.op = "delete"
    /\ last.next_target # NoNode
    /\ Len(last.cmds) = 1
    /\ last.cmds[1].name = "switch-client"
    /\ ~last.cmds[1].ok
    /\ ~last.resynced

\* The session of the snapshot that object o is, or lies in.
SessionOf(o) ==
    LET sid == IF o.kind = "session" THEN o.id ELSE o.session_id
    IN  tmux_sessions[CHOOSE i \in 1..Len(tmux_sessions) : tmux_sessions[i].id = sid]

\* Whether the flags let object o of the snapshot be displayed.
Displayed(o) ==
    /\ show_hidden_sessions \/ ~StartsWithUnderscores(SessionOf(o).name)
    /\ focus_on_session = None \/ SessionOf(o).id = focus_on_session
    /\ o.kind = "pane" => show_panes

\* The displayed objects in pre-order.
ExpectedRows == SelectSeq(AllObjects(tmux_sessions), Displayed)

\* C7: the rows of the displayed tree are the displayable objects of the
\* snapshot in pre-order, whether or not they pass the filter, and the node
\* on row r carries jump code r (so the codes are 1..K, each once).
C7_JumpCodesArePreOrderPositions ==
    (phase # "start" /\ tmux_sessions # <<>>)
        => /\ Len(tree_lines) = Len(ExpectedRows)
           /\ \A r \in 1..Len(tree_lines) :
                 /\ tree_lines[r] = ExpectedRows[r]
                 /\ tree_lines[r].jump_code = r

\* C7 witness: panes and hidden sessions shown, a search term that some rows
\* fail and others pass, numbers on.
C7_FilteredRowsStillNumbered ==
    /\ phase = "running"
    /\ show_panes /\ show_hidden_sessions /\ show_numbers
    /\ search_term # <<>>
    /\ Len(tree_lines) >= 5
    /\ \E r \in 2..Len(tree_lines) : ~tree_lines[r].is_enabled /\ tree_lines[r].jump_code = r
    /\ \E r \in 2..Len(tree_lines) : tree_lines[r].is_enabled /\ tree_lines[r].jump_code = r

OneThenTwo ==
    /\ last.op = "digit"
    /\ last.prev = <<"1">>
    /\ last.arg = <<"2">>
    /\ Len(tree_lines) >= 12

\* C9 as stated: in any state with the tree focused and at least 12 rows,
\* "1" then "2" within the timeout leave the cursor on the node with jump
\* code 12.
C9_OneThenTwoReachesTwelve ==
    OneThenTwo => NodeAtLine(tree_lines, cursor_line).jump_code = 12

\* C9 amended: while numbers are shown, a digit that comes less than
\* JUMP_TIMEOUT after the previous digit extends the buffer and any other
\* digit starts a new one; after the digit the cursor is on row int(buffer)-1
\* when the tree has that row; so "1" starting a buffer, then "2" within the
\* timeout, leave the cursor on the node with jump code 12.
C9_BufferedJumpWhileNumbersShown ==
    (last.op = "digit" /\ show_numbers)
        => /\ last.fresh => current_jump_label = last.arg
           /\ ~last.fresh => /\ Len(current_jump_label) >= 2
                             /\ current_jump_label[Len(current_jump_label)] = last.arg[1]
           /\ IntOf(current_jump_label) \in 1..Len(tree_lines)
                 => cursor_line = IntOf(current_jump_label) - 1
           /\ (OneThenTwo /\ last.prev_fresh)
                 => /\ current_jump_label = <<"1", "2">>
                    /\ cursor_line = 11
                    /\ NodeAtLine(tree_lines, cursor_line).jump_code = 12

\* C9 witness: numbers shown, "1" started a buffer, "2" followed within the
\* timeout, and the cursor is on the twelfth row.
C9_TwelfthRowReached ==
    /\ OneThenTwo
    /\ show_numbers
    /\ last.prev_fresh
    /\ cursor_line = 11

\* The displayed tree is the one of the example: session A with windows a1
\* and a2, then session B without windows.
ExampleTree ==
    /\ Len(tree_lines) = 4
    /\ tree_lines[1].kind = "session" /\ tree_lines[1].name = <<"A">>
    /\ tree_lines[2].kind = "window" /\ tree_lines[2].name = <<"a", "1">>
    /\ tree_lines[3].kind = "window" /\ tree_lines[3].name = <<"a", "2">>
    /\ tree_lines[4].kind = "session" /\ tree_lines[4].name = <<"B">>

ExampleSearched == phase = "running" /\ search_term = <<"a", "1">> /\ ExampleTree

\* Window a1 is enabled, its label undimmed with both characters marked, and
\* window a2 is disabled and dimmed.
WindowsOfExample ==
    /\ tree_lines[2].is_enabled
    /\ ~tree_labels[2].dimmed
    /\ tree_labels[2].text = <<[ch |-> "a", marked |-> TRUE], [ch |-> "1", marked |-> TRUE]>>
    /\ ~tree_lines[3].is_enabled
    /\ tree_labels[3].dimmed

\* C11 as stated: in the tree A:[a1, a2], B:[] under the search term "a1",
\* window a1 is enabled with both characters marked, window a2 is disabled,
\* and the sessions A and B are enabled.
C11_ExampleSessionsEnabled ==
    ExampleSearched
        => /\ WindowsOfExample
           /\ tree_lines[1].is_enabled
           /\ tree_lines[4].is_enabled

\* C11 amended: the same for the windows; the sessions A and B are matched on
\* their own names like every node, do not consume "a1", and are disabled
\* and dimmed ("A" has one of its characters matched, which is not enough).
C11_ExampleSessionsDisabled ==
    ExampleSearched
        => /\ WindowsOfExample
           /\ ~tree_lines[1].is_enabled /\ tree_labels[1].dimmed
           /\ ~tree_lines[4].is_enabled /\ tree_labels[4].dimmed

\* C11 witness: the example tree under "a1", the cursor taken to the first
\* marked row, a1.
C11_ExampleFiltered ==
    /\ ExampleSearched
    /\ search_visible
    /\ tree_lines[2].is_enabled
    /\ cursor_line = 1

\* The part of the evaluated term that is matched against the node's own
\* name, lower-cased and without its spaces.
OwnTerm ==
    StripSpaces(Lower(IF HasSlash(fz.search_term) THEN AfterSlash(fz.search_term)
                      ELSE fz.search_term))

\* The evaluation came to the own-name matching: the term is not empty and the
\* node was not rejected for its parent.
OwnNameMatched ==
    /\ fz.done
    /\ fz.search_term # <<>>
    /\ ~(ParentPartFails /\ fz.parent_name # <<>>)

\* The marked characters of a marked name, in order and lower-cased.
MarkedChars(text) ==
    Lower([k \in 1..Len(SelectSeq(text, LAMBDA c : c.marked)) |->
              SelectSeq(text, LAMBDA c : c.marked)[k].ch])

\* The characters of a marked name without the markup.
PlainChars(text) == [k \in 1..Len(text) |-> text[k].ch]

C13_CancelHasNoEffect ==
    [][(modal # "none" /\ last'.op = "cancel_modal")
          => /\ modal' = "none"
             /\ phase' = "running"
             /\ last'.cmds = <<>>
             /\ ~last'.resynced
             /\ UNCHANGED <<ext, client_focus, command_file, tmux_sessions,
                            tree_lines, tree_labels, cursor_line, current_tree_node,
                            highlight_history, show_numbers, show_panes, show_guides,
                            show_hidden_sessions, focus_on_session, search_term,
                            search_visible, current_jump_label,
                            current_jump_updated>>]_vars

\* C13 witness: the delete confirmation was cancelled, with panes shown and
\* a history of two or more visits.
C13_DeleteCancelled ==
    /\ last.op = "cancel_modal"
    /\ last.arg = <<"delete">>
    /\ modal = "none"
    /\ phase = "running"
    /\ show_panes
    /\ Len(highlight_history) >= 2

\* C14: while a modal is open no step opens another one: the modal stays
\* the same or is closed, so at most one operation is pending, and the keys of
\* the add-window, rename and delete entry points change nothing under it.
C14_NoSecondModal ==
    [][modal # "none"
          => /\ modal' \in {modal, "none"}
             /\ last'.op = "modal_key" =>
                    UNCHANGED <<modal, phase, tmux_sessions, tree_lines, cursor_line>>]_vars

\* C14 witness: the rename key was pressed under the delete confirmation,
\* which is still the open modal.
C14_EntryKeyUnderModal ==
    /\ last.op = "modal_key"
    /\ last.arg = <<"r">>
    /\ modal = "delete"
    /\ phase = "running"

\* The last handler was the submission or confirmation of a modal operation.
Applied == last.op \in {"add_window", "rename", "delete"}

\* C15 as stated: every modal operation that was submitted or confirmed comes
\* back to Idle with its modal closed, whether it completed or failed.  The
\* callback and pop_screen run within the one handler of the submission, and
\* nothing runs after a handler that raised, so the operation is back to Idle
\* when that handler ends or never: the modal is closed and the application
\* is running (or was exited by the operation itself).
C15_AppliedReturnsToIdle ==
    Applied => (modal = "none" /\ phase \in {"running", "exited"})

\* C16: a rename submitted with a pane as the current node raises
\* NotImplementedError at once: no external command is issued, no resync is
\* made, and the server, the snapshot, the tree, the cursor, the history and
\* the flags are what they were.
C16_RenamePaneFailsFast ==
    [][(modal = "rename" /\ last'.op = "rename" /\ last'.target.kind = "pane")
          => /\ phase' = "crashed"
             /\ last'.cmds = <<>>
             /\ ~last'.resynced
             /\ UNCHANGED <<ext, client_focus, tmux_sessions, tree_lines,
                            tree_labels, cursor_line, current_tree_node,
                            highlight_history, show_numbers, show_panes, show_guides,
                            show_hidden_sessions, focus_on_session, search_term,
                            search_visible>>]_vars

\* C16 witness: a rename was submitted with the cursor on a pane.
C16_RenameSubmittedOnPane ==
    /\ last.op = "rename"
    /\ last.on_cursor
    /\ last.target.kind = "pane"
    /\ NodeAtLine(tree_lines, cursor_line).kind = "pane"
    /\ phase = "crashed"

\* The last handler was a rename of a session whose command succeeded.
SessionRenamed ==
    /\ last.op = "rename"
    /\ last.target.kind = "session"
    /\ last.cmds # <<>>
    /\ AllOk(last.cmds)

\* The rows of the displayed tree that show a session named name.
RowsOfSessionNamed(name) ==
    {r \in 1..Len(tree_lines) :
        tree_lines[r].kind = "session" /\ tree_lines[r].name = name}

\* C17 as stated: after a successful rename of a session to N, a resync was
\* made and the cursor is on the row of the session named N in the rebuilt
\* tree, for every name and every state of the toggle flags.
C17_CursorOnRenamedSession ==
    SessionRenamed
        => /\ last.resynced
           /\ \E r \in RowsOfSessionNamed(last.arg) : cursor_line = r - 1

\* The same wherever the rebuilt tree displays the session named N (this
\* much holds).
RenamedSessionHasCursorIfDisplayed ==
    (SessionRenamed /\ RowsOfSessionNamed(last.arg) # {})
        => /\ last.resynced
           /\ \E r \in RowsOfSessionNamed(last.arg) : cursor_line = r - 1

\* C18: a name submitted for a new window, with a session, a window or a pane
\* as the current node: with a command file, exactly one new-window command
\* is emitted, on the node's id, with the name, placed before ("b") a session
\* and after ("a") anything else, and the application exits; without a
\* command file nothing is emitted, no resync is made, and the server, the
\* snapshot, the tree and the cursor are unchanged, the application running.
C18_CreateWindowEmitsOneCommand ==
    [][(/\ modal = "add_window"
        /\ last'.op = "add_window"
        /\ last'.target.kind \in {"session", "window", "pane"})
          => /\ modal' = "none"
             /\ ~last'.resynced
             /\ UNCHANGED <<ext, client_focus, tmux_sessions, tree_lines,
                            tree_labels, cursor_line, current_tree_node,
                            highlight_history>>
             /\ IF command_file # None
                THEN /\ Len(last'.cmds) = 1
                     /\ last'.cmds[1].name = "new-window"
                     /\ last'.cmds[1].target = current_tree_node.id
                     /\ last'.cmds[1].arg =
                            <<IF current_tree_node.kind = "session" THEN "b" ELSE "a">>
                            \o last'.arg
                     /\ phase' = "exited"
                ELSE /\ last'.cmds = <<>>
                     /\ phase' = "running"]_vars

\* C18 witness: a window was created from a session row, before it, and the
\* application exited.
C18_WindowCreatedBeforeSession ==
    /\ last.op = "add_window"
    /\ last.on_cursor
    /\ last.target.kind = "session"
    /\ Len(last.cmds) = 1
    /\ last.cmds[1].arg[1] = "b"
    /\ phase = "exited"

\* The node displayed on the cursor row.
Selected == NodeAtLine(tree_lines, cursor_line)

\* The external focus is on node o: on o itself or, o being a pane (which
\* switch-client cannot address on its own), on the window that holds it.
FocusOn(o) ==
    \/ client_focus = o.id
    \/ o.kind = "pane" /\ client_focus = o.window_id

\* The start-up window, or failing that the start-up session, as the
\* snapshot has it; NoNode when it has neither.
StartUpNode ==
    LET window == _find_window(tmux_sessions, initial_window_id)
        session == _find_target(tmux_sessions,
                                [kind |-> "session", id |-> initial_session_id])
    IN  IF window # NoNode THEN window ELSE session

\* C19 as stated: when the program ends on enter, the external focus is on
\* the selected node whatever its kind; when it ends on escape, the last
\* focus command restored the start-up window if the snapshot still has it,
\* else the start-up session.
C19_FocusOnExit ==
    /\ (last.op = "make_selection" /\ Selected.kind \in {"session", "window", "pane"})
          => FocusOn(Selected)
    /\ (last.op = "cancel_selection" /\ StartUpNode # NoNode)
          => /\ Len(last.cmds) = 1
             /\ last.cmds[1].name = "switch-client"
             /\ last.cmds[1].target = StartUpNode.id
             /\ client_focus = StartUpNode.id

\* The part of C19 about escape, and about enter on a session or a window
\* (this much holds).
FocusOnExitExceptPanes ==
    /\ (last.op = "make_selection" /\ Selected.kind \in {"session", "window"})
          => FocusOn(Selected)
    /\ (last.op = "cancel_selection" /\ StartUpNode # NoNode)
          => /\ Len(last.cmds) = 1
             /\ last.cmds[1].target = StartUpNode.id
             /\ client_focus = StartUpNode.id

\* Session i of the snapshot is session i of the server, with no windows if
\* its list-windows failed, and else with the server's windows, each with no
\* panes if its list-panes failed and else with the server's panes.
BranchAsReported(i) ==
    /\ tmux_sessions[i].id = ext[i].id
    /\ tmux_sessions[i].name = ext[i].name
    /\ IF ext[i].id \in failing
       THEN tmux_sessions[i].windows = <<>>
       ELSE /\ Len(tmux_sessions[i].windows) = Len(ext[i].windows)
            /\ \A j \in 1..Len(ext[i].windows) :
                  /\ tmux_sessions[i].windows[j].id = ext[i].windows[j].id
                  /\ IF ext[i].windows[j].id \in failing
                     THEN tmux_sessions[i].windows[j].panes = <<>>
                     ELSE /\ Len(tmux_sessions[i].windows[j].panes)
                                = Len(ext[i].windows[j].panes)
                          /\ \A k \in 1..Len(ext[i].windows[j].panes) :
                                tmux_sessions[i].windows[j].panes[k].id
                                    = ext[i].windows[j].panes[k].id

\* C20: every resync comes to its end whatever enumeration failed.  With
\* list-sessions failed, or no session reported, the snapshot is empty and
\* the tree is one placeholder row without data or jump code; otherwise every
\* session is in the snapshot, the branch of a failed list-windows or
\* list-panes empty and every other branch as the server has it, and the
\* rows are the displayable objects of that snapshot numbered in pre-order.
C20_FailedEnumerationIsAnEmptyBranch ==
    last.resynced =>
        IF "list-sessions" \in failing \/ ext = <<>>
        THEN /\ tmux_sessions = <<>>
             /\ tree_lines = <<NoData>>
             /\ tree_labels = <<PlaceholderLabel>>
             /\ tree_lines[1].jump_code = -1
        ELSE /\ Len(tmux_sessions) = Len(ext)
             /\ \A i \in 1..Len(ext) : BranchAsReported(i)
             /\ Len(tree_lines) = Len(ExpectedRows)
             /\ \A r \in 1..Len(tree_lines) :
                   /\ tree_lines[r] = ExpectedRows[r]
                   /\ tree_lines[r].jump_code = r

\* C20 witness: list-panes of window w2 failed and nothing else; with panes
\* shown, w2 has no pane row and window w1 before it has its pane row.
C20_OnePaneListingFailed ==
    /\ last.resynced
    /\ failing = {"w2"}
    /\ show_panes
    /\ \E r \in 1..Len(tree_lines) : tree_lines[r].kind = "pane" /\ tree_lines[r].window_id = "w1"
    /\ \A r \in 1..Len(tree_lines) : tree_lines[r].kind = "pane" => tree_lines[r].window_id # "w2"
    /\ \E r \in 1..Len(tree_lines) : tree_lines[r].id = "w2"

\* Another reachable case: list-sessions failed and the tree is the
\* placeholder row.
PlaceholderShown ==
    /\ last.resynced
    /\ "list-sessions" \in failing
    /\ tree_lines = <<NoData>>

\* The walk of handle_delete_session, handle_delete_window back through the
\* history finds no replacement for target.
HistoryYieldsNone(history, target) ==
    IF target.kind = "session"
    THEN \A n \in 1..Len(history) :
            get_session_id(history[n]) = None \/ get_session_id(history[n]) = target.id
    ELSE \A n \in 1..Len(history) : SameObject(history[n], target)

\* The first session, the first window of a snapshot in snapshot order that
\* does not have target's id; NoNode if there is none.
FirstOtherOfKind(sessions, target) ==
    FirstWhere(AllObjects(sessions),
               [n \in DOMAIN AllObjects(sessions) |->
                    /\ AllObjects(sessions)[n].kind = target.kind
                    /\ AllObjects(sessions)[n].id # target.id])

\* A delete of the cursor's session or window is confirmed in this step, and
\* the history holds no replacement for it.
DeleteFallsBack ==
    /\ modal = "delete"
    /\ last'.op = "delete"
    /\ last'.cmds # <<>>
    /\ HistoryYieldsNone(highlight_history, current_tree_node)

\* C21 as stated: when the history yields no replacement for a delete, the
\* replacement is the first session (session delete) or the first window
\* (window delete, scanning the sessions in snapshot order and the windows of
\* each in order) of the snapshot that is not the target.
C21_FallbackIsFirstOther ==
    [][DeleteFallsBack
          => /\ last'.next_target.kind = FirstOtherOfKind(tmux_sessions, current_tree_node).kind
             /\ last'.next_target.id = FirstOtherOfKind(tmux_sessions, current_tree_node).id]_vars

\* The half of C21 about sessions, which the code keeps.
SessionFallbackIsFirstOther ==
    [][(DeleteFallsBack /\ current_tree_node.kind = "session")
          => /\ last'.next_target.kind = FirstOtherOfKind(tmux_sessions, current_tree_node).kind
             /\ last'.next_target.id = FirstOtherOfKind(tmux_sessions, current_tree_node).id]_vars

\* The node the last handler located and moved the cursor to: the start-up
\* window (on_mount), the node of action_toggle_panes, the session that has
\* the new name (handle_rename of a session), the replacement
\* (_handle_delete_target); NoNode if it located none.
LocatedNode ==
    IF last.op = "mount" THEN _find_window(tmux_sessions, initial_window_id)
    ELSE IF last.op = "toggle_panes" /\ last.target # NoNode
         THEN ToggleTarget(tmux_sessions, last.target, show_panes)
    ELSE IF SessionRenamed THEN _find_session_by_name(tmux_sessions, last.arg)
    ELSE IF DeleteSucceeded THEN last.next_target
    ELSE NoNode

\* C22 as stated: whenever a handler moved the cursor to a node it located,
\* the jump code it computed the row from is one of 1..K (K rows displayed)
\* and is the row on which the current tree displays that node.
C22_LocatedNodeIsDisplayed ==
    LocatedNode # NoNode
        => /\ LocatedNode.jump_code \in 1..Len(tree_lines)
           /\ LocatedNode.jump_code \in RowsOf(LocatedNode)

\* The cursor row was computed from the jump code of a node add() was not
\* called for.
CursorFromUnassignedJumpCode ==
    /\ LocatedNode # NoNode
    /\ LocatedNode.jump_code = -1

\* A delete of the cursor's session or window is confirmed in this step, and
\* its replacement comes from the history.
DeleteTakesFromHistory ==
    /\ modal = "delete"
    /\ last'.op = "delete"
    /\ last'.cmds # <<>>
    /\ ~HistoryYieldsNone(highlight_history, current_tree_node)

\* C23 as stated: the replacement a delete takes from the history is an
\* entity of the snapshot current when the delete is confirmed, and of the
\* server, so that the switch to it is not refused for want of its target.
C23_HistoryReplacementExists ==
    [][DeleteTakesFromHistory
          => /\ _find_target(tmux_sessions, last'.next_target) # NoNode
             /\ last'.next_target.id \in AllIds(ext)]_vars

\* Some displayed node is disabled and some is enabled.
SomeDisabledSomeEnabled(lines) ==
    /\ \E r \in 1..Len(lines) : ~lines[r].is_enabled
    /\ \E r \in 1..Len(lines) : lines[r].is_enabled

\* The row of the first enabled node, top to bottom.
FirstEnabledRow(lines) ==
    CHOOSE r \in 1..Len(lines) :
        lines[r].is_enabled /\ \A m \in 1..(r - 1) : ~lines[m].is_enabled

\* This step is a handler that resyncs and does nothing to the cursor after
\* the resync (the search box, the toggles other than the pane toggle).
ResyncAlone == last'.op = "other" /\ last'.resynced

\* C24: a resync that finds a disabled and an enabled node among the nodes it
\* displays puts the cursor on the row of the first enabled one; a resync
\* that finds every node enabled, or none, leaves the cursor where the
\* rebuild left it (its row, or no row if the tree has become shorter) and
\* highlights nothing.
C24_FilterMovesCursorIffMixed ==
    [][ResyncAlone
          => IF SomeDisabledSomeEnabled(tree_lines')
             THEN cursor_line' = FirstEnabledRow(tree_lines') - 1
             ELSE /\ cursor_line' = IF cursor_line >= Len(tree_lines') THEN -1
                                    ELSE cursor_line
                  /\ highlight_history' = highlight_history]_vars

\* C24 witness: a search term under which the first row is disabled and a
\* later one enabled; the resync has put the cursor on the first enabled row
\* and highlighted its node.
C24_CursorOnFirstMatch ==
    /\ last.op = "other"
    /\ last.resynced
    /\ search_term # <<>>
    /\ SomeDisabledSomeEnabled(tree_lines)
    /\ FirstEnabledRow(tree_lines) > 1
    /\ cursor_line = FirstEnabledRow(tree_lines) - 1
    /\ current_tree_node = tree_lines[FirstEnabledRow(tree_lines)]

\* Another reachable case: a resync under a search term that no node matches.
ResyncWithNoneEnabled ==
    /\ last.op = "other"
    /\ last.resynced
    /\ search_term # <<>>
    /\ \A r \in 1..Len(tree_lines) : ~tree_lines[r].is_enabled

====
